---- MODULE Spec2Model ----
(***************************************************************************)
(* gassentinel-sender: the CoAP request handler of src/main.rs.            *)
(*                                                                         *)
(* A request carries a method, a payload (bytes) and, when the transport   *)
(* allows an answer, a response slot.  The handler validates the payload   *)
(* against the regex of line 43, builds one GasSentinelDataPoint, takes    *)
(* the two std::sync::Mutex guards (client, bucket), awaits the InfluxDB   *)
(* write and fills the response slot.  Every unwrap() of the handler is    *)
(* modelled as the panic it is.  lock() blocks the thread it is called on; *)
(* the await of the write is the only point where a handler is suspended.  *)
(*                                                                         *)
(* Bytes are numbers 0..255; a payload is a sequence of bytes.             *)
(***************************************************************************)
EXTENDS Integers, Sequences, FiniteSets, TLC

(***************************************************************************)
(* Bounds of the model.                                                    *)
(***************************************************************************)
\* number of requests the transport delivers
NumReq == 2
\* most worker threads the tokio runtime is started with (#[tokio::main]
\* starts one per core of the machine)
MaxWorkers == 2

Reqs == 1..NumReq

(***************************************************************************)
(* Bytes and text.                                                         *)
(***************************************************************************)
Comma == 44
Minus == 45
Plus == 43
Dot == 46

IsDigit(b) == b >= 48 /\ b <= 57

\* a class that takes every ASCII letter and digit
IsHex_AnyLetter(b) == IsDigit(b) \/ (b >= 65 /\ b <= 90) \/ (b >= 97 /\ b <= 122)

\* the class [a-fA-F0-9]
IsHex(b) == IsDigit(b) \/ (b >= 65 /\ b <= 70) \/ (b >= 97 /\ b <= 102)

IsCont(b) == b >= 128 /\ b <= 191

\* number of bytes of the UTF-8 scalar that starts at s[i], 0 when ill-formed
\* (String::from_utf8 validates the whole vector, core::str::from_utf8)
Utf8Width(s, i) ==
    LET n == Len(s)
        b == s[i]
        c1 == IF i + 1 <= n THEN s[i + 1] ELSE 0
        c2 == IF i + 2 <= n THEN s[i + 2] ELSE 0
        c3 == IF i + 3 <= n THEN s[i + 3] ELSE 0
    IN  IF b < 128 THEN 1
        ELSE IF b >= 194 /\ b <= 223
             THEN (IF IsCont(c1) THEN 2 ELSE 0)
        ELSE IF b = 224
             THEN (IF c1 >= 160 /\ c1 <= 191 /\ IsCont(c2) THEN 3 ELSE 0)
        ELSE IF (b >= 225 /\ b <= 236) \/ b = 238 \/ b = 239
             THEN (IF IsCont(c1) /\ IsCont(c2) THEN 3 ELSE 0)
        ELSE IF b = 237
             THEN (IF c1 >= 128 /\ c1 <= 159 /\ IsCont(c2) THEN 3 ELSE 0)
        ELSE IF b = 240
             THEN (IF c1 >= 144 /\ c1 <= 191 /\ IsCont(c2) /\ IsCont(c3) THEN 4 ELSE 0)
        ELSE IF b >= 241 /\ b <= 243
             THEN (IF IsCont(c1) /\ IsCont(c2) /\ IsCont(c3) THEN 4 ELSE 0)
        ELSE IF b = 244
             THEN (IF c1 >= 128 /\ c1 <= 143 /\ IsCont(c2) /\ IsCont(c3) THEN 4 ELSE 0)
        ELSE 0

RECURSIVE Utf8From(_, _)
Utf8From(s, i) ==
    IF i > Len(s) THEN TRUE
    ELSE LET w == Utf8Width(s, i)
         IN  IF w = 0 THEN FALSE ELSE Utf8From(s, i + w)

\* String::from_utf8(bytes) is Ok
from_utf8_ok(bytes) == Utf8From(bytes, 1)

\* i (0-based byte offset) is a char boundary of the string s
IsCharBoundary(s, i) ==
    \/ i = 0
    \/ i = Len(s)
    \/ (i < Len(s) /\ ~IsCont(s[i + 1]))

(***************************************************************************)
(* The schema validator: ^([a-fA-F0-9]{16})(,-?[0-9]+){8}$                 *)
(***************************************************************************)
IdLen == 16
Groups == 8

\* first position >= i of s that holds no digit
RECURSIVE SkipDigits(_, _)
SkipDigits(s, i) ==
    IF i <= Len(s) /\ IsDigit(s[i]) THEN SkipDigits(s, i + 1) ELSE i

\* (,-?[0-9]*){k}$ matched from position i: a group needs no digit
RECURSIVE MatchGroups_NoDigitsNeeded(_, _, _)
MatchGroups_NoDigitsNeeded(s, i, k) ==
    IF k = 0 THEN i = Len(s) + 1
    ELSE /\ i <= Len(s)
         /\ s[i] = Comma
         /\ LET d == IF i + 1 <= Len(s) /\ s[i + 1] = Minus THEN i + 2 ELSE i + 1
                e == SkipDigits(s, d)
            IN  MatchGroups_NoDigitsNeeded(s, e, k - 1)

\* (,-?[0-9]+){k}$ matched from position i
RECURSIVE MatchGroups(_, _, _)
MatchGroups(s, i, k) ==
    IF k = 0 THEN i = Len(s) + 1
    ELSE /\ i <= Len(s)
         /\ s[i] = Comma
         /\ LET d == IF i + 1 <= Len(s) /\ s[i + 1] = Minus THEN i + 2 ELSE i + 1
                e == SkipDigits(s, d)
            IN  e > d /\ MatchGroups(s, e, k - 1)

\* the pattern without its ^: a match may start anywhere in s
is_match_NoStartAnchor(s) ==
    \E a \in 0..Len(s) :
        /\ Len(s) - a >= IdLen
        /\ \A i \in 1..IdLen : IsHex(s[a + i])
        /\ MatchGroups(s, a + IdLen + 1, Groups)

\* re.is_match(&payload[..])
is_match(s) ==
    /\ Len(s) >= IdLen
    /\ \A i \in 1..IdLen : IsHex(s[i])
    /\ MatchGroups(s, IdLen + 1, Groups)

(***************************************************************************)
(* The payload decoder: slicing, split(','), nth(k), parse::<f64>().       *)
(***************************************************************************)
\* &payload[from..] does not panic: from is in bounds and a char boundary
SliceFromOk(s, from) == from <= Len(s) /\ IsCharBoundary(s, from)

\* &payload[..to] does not panic
SliceToOk(s, to) == to <= Len(s) /\ IsCharBoundary(s, to)

\* the slice that starts one byte early, at the separating comma
SliceFrom_KeepComma(s, from) == SubSeq(s, from, Len(s))

\* payload[from..]
SliceFrom(s, from) == SubSeq(s, from + 1, Len(s))

\* payload[..to]
SliceTo(s, to) == SubSeq(s, 1, to)

\* first position >= i of s that holds the byte sep, Len(s) + 1 when none
RECURSIVE FindByte(_, _, _)
FindByte(s, i, sep) ==
    IF i > Len(s) \/ s[i] = sep THEN i ELSE FindByte(s, i + 1, sep)

\* s.split(sep) collected: the pieces between the separators, at least one
RECURSIVE Split(_, _)
Split(s, sep) ==
    LET j == FindByte(s, 1, sep)
    IN  IF j > Len(s) THEN <<s>>
        ELSE <<SubSeq(s, 1, j - 1)>> \o Split(SubSeq(s, j + 1, Len(s)), sep)

None == [some |-> FALSE]
Some(v) == [some |-> TRUE, v |-> v]

\* nth counting from one
nth_OneBased(toks, k) == IF k >= 1 /\ k <= Len(toks) THEN Some(toks[k]) ELSE None

\* iterator.nth(k): the element at 0-based position k
nth(tokens, k) == IF k + 1 <= Len(tokens) THEN Some(tokens[k + 1]) ELSE None

\* value of a run of decimal digits
RECURSIVE DecValue(_)
DecValue(d) ==
    IF d = <<>> THEN 0
    ELSE DecValue(SubSeq(d, 1, Len(d) - 1)) * 10 + (d[Len(d)] - 48)

\* m * 10^e without trailing zeros in m
RECURSIVE Normal(_, _)
Normal(m, e) ==
    IF m = 0 THEN [kind |-> "num", m |-> 0, e |-> 0]
    ELSE IF m % 10 = 0 THEN Normal(m \div 10, e + 1)
    ELSE [kind |-> "num", m |-> m, e |-> e]

\* the number n as an f64
Num(n) == Normal(n, 0)

LowerByte(b) == IF b >= 65 /\ b <= 90 THEN b + 32 ELSE b
Lower(s) == [i \in 1..Len(s) |-> LowerByte(s[i])]

\* "inf", "infinity", "nan"
InfText == <<105, 110, 102>>
InfinityText == <<105, 110, 102, 105, 110, 105, 116, 121>>
NanText == <<110, 97, 110>>

Err == [ok |-> FALSE]
Ok(v) == [ok |-> TRUE, v |-> v]

\* <f64 as FromStr>::from_str(tok): [sign] (inf | infinity | nan | digits
\* [. digits] [e [sign] digits]); the value is kept as the exact decimal
parse(tok) ==
    LET n == Len(tok)
        hasSign == n >= 1 /\ tok[1] \in {Plus, Minus}
        neg == n >= 1 /\ tok[1] = Minus
        p == IF hasSign THEN 2 ELSE 1
        body == Lower(SubSeq(tok, p, n))
        i1 == SkipDigits(tok, p)
        hasDot == i1 <= n /\ tok[i1] = Dot
        f0 == IF hasDot THEN i1 + 1 ELSE i1
        f1 == IF hasDot THEN SkipDigits(tok, f0) ELSE i1
        hasExp == f1 <= n /\ tok[f1] \in {101, 69}
        eSign == hasExp /\ f1 + 1 <= n /\ tok[f1 + 1] \in {Plus, Minus}
        eNeg == eSign /\ tok[f1 + 1] = Minus
        ed == IF eSign THEN f1 + 2 ELSE f1 + 1
        ee == IF hasExp THEN SkipDigits(tok, ed) ELSE f1
        digits == SubSeq(tok, p, i1 - 1) \o SubSeq(tok, f0, f1 - 1)
        expo == IF hasExp THEN DecValue(SubSeq(tok, ed, ee - 1)) ELSE 0
        mant == DecValue(digits)
    IN  IF body = InfText \/ body = InfinityText
        THEN Ok([kind |-> IF neg THEN "-inf" ELSE "inf", m |-> 0, e |-> 0])
        ELSE IF body = NanText THEN Ok([kind |-> "nan", m |-> 0, e |-> 0])
        ELSE IF /\ Len(digits) > 0
                /\ (hasExp => ee > ed)
                /\ ee = n + 1
        THEN Ok(Normal(IF neg THEN 0 - mant ELSE mant,
                       (IF eNeg THEN 0 - expo ELSE expo) - (f1 - f0)))
        ELSE Err

\* payload[17..].split(',').nth(k).unwrap().parse().unwrap() does not panic
FieldOk(payload, k) ==
    /\ SliceFromOk(payload, IdLen + 1)
    /\ LET t == nth(Split(SliceFrom(payload, IdLen + 1), Comma), k)
       IN  t.some /\ parse(t.v).ok

\* payload[17..].split(',').nth(k).unwrap().parse().unwrap()
Field(payload, k) ==
    parse(nth(Split(SliceFrom(payload, IdLen + 1), Comma), k).v).v

\* the struct literal of lines 104-115 is evaluated without a panic
DecodeOk(payload) ==
    /\ SliceToOk(payload, IdLen)
    /\ \A k \in 1..7 : FieldOk(payload, k)

\* the point with the device id cut one character short
GasSentinelDataPoint_ShortId(payload, now) ==
    [device_eui64 |-> SliceTo(payload, IdLen - 1),
     temp |-> Field(payload, 1),
     hum |-> Field(payload, 2),
     pres |-> Field(payload, 3),
     cl1 |-> Field(payload, 4),
     cl2 |-> Field(payload, 5),
     rssi |-> Field(payload, 6),
     vbat |-> Field(payload, 7),
     time |-> now]

\* the GasSentinelDataPoint of lines 104-115
GasSentinelDataPoint(payload, now) ==
    [device_eui64 |-> SliceTo(payload, IdLen),
     temp |-> Field(payload, 1),
     hum |-> Field(payload, 2),
     pres |-> Field(payload, 3),
     cl1 |-> Field(payload, 4),
     cl2 |-> Field(payload, 5),
     rssi |-> Field(payload, 6),
     vbat |-> Field(payload, 7),
     time |-> now]

(***************************************************************************)
(* Requests the transport can deliver.                                     *)
(***************************************************************************)
\* latest instant the clock of Utc::now() shows
MaxInstant == 0
Instants == 0..MaxInstant

\* decimal text of a natural number
RECURSIVE NatText(_)
NatText(n) == IF n < 10 THEN <<48 + n>> ELSE NatText(n \div 10) \o <<48 + (n % 10)>>

\* decimal text of an integer, as a device prints it
IntText(n) == IF n < 0 THEN <<Minus>> \o NatText(0 - n) ELSE NatText(n)

\* the wire form of a telemetry record: the id, then ",<int>" per field
RECURSIVE FieldsText(_)
FieldsText(f) ==
    IF f = <<>> THEN <<>>
    ELSE <<Comma>> \o IntText(Head(f)) \o FieldsText(Tail(f))

Wire(rec) == rec.id \o FieldsText(rec.f)

\* "0004A30B00112233" with fields 0,215,512,9981,310,287,-72,3298
RecA == [id |-> <<48, 48, 48, 52, 65, 51, 48, 66, 48, 48, 49, 49, 50, 50, 51, 51>>,
         f |-> <<0, 215, 512, 9981, 310, 287, -72, 3298>>]

\* "00aaBBccDDeeff99" with fields 7,-5,40,1013,12,13,-80,3000
RecB == [id |-> <<48, 48, 97, 97, 66, 66, 99, 99, 68, 68, 101, 101, 102, 102, 57, 57>>,
         f |-> <<7, -5, 40, 1013, 12, 13, -80, 3000>>]

Records == {RecA, RecB}

\* a record without its trailing field
MissingTrailing(rec) == [rec EXCEPT !.f = SubSeq(rec.f, 1, Len(rec.f) - 1)]

\* "0004A30B00112233,0,21.5,1012,99.8,31.0,28.7,-72,32.98"
DecimalPayload ==
    RecA.id \o <<Comma, 48, Comma, 50, 49, Dot, 53, Comma, 49, 48, 49, 50,
                 Comma, 57, 57, Dot, 56, Comma, 51, 49, Dot, 48,
                 Comma, 50, 56, Dot, 55, Comma, Minus, 55, 50,
                 Comma, 51, 50, Dot, 57, 56>>

\* a conforming record followed by a byte that starts no UTF-8 scalar
NotUtf8Payload == Wire(RecA) \o <<255>>

\* payloads that do not conform to the wire format
Malformed ==
    {Wire(MissingTrailing(RecA)), DecimalPayload, NotUtf8Payload}

Payloads == {Wire(rec) : rec \in Records} \cup Malformed

\* coap_lite::RequestType values the devices use
Methods == {"Get", "Put"}

\* request.response: the message CoapResponse::new prepared, or None
FreshMessage == [payload |-> <<>>, code |-> "Content"]
Slots == {Some(FreshMessage), None}

Requests == [method : Methods, payload : Payloads, response : Slots]

(***************************************************************************)
(* The request handler (closure of coap_server.run, lines 95-143).         *)
(***************************************************************************)
\* args[4], the destination bucket
BucketName == "bucket"

\* line 103: re.is_match(&payload[..]) && request.get_method() == &Method::Put
Accepted(req) == is_match(req.payload) /\ req.method = "Put"

\* lines 104-115: vec![GasSentinelDataPoint { .. }]
Points(payload, now) == <<GasSentinelDataPoint(payload, now)>>

\* the rejection path answering with a message of its own making where the
\* request carries no slot
ErrorResponse_Invented(slot) ==
    Some([FreshMessage EXCEPT !.payload = <<48>>, !.code = "BadOption"])

\* the rejection path with the status code left as the transport set it
ErrorResponse_CodeKept(slot) ==
    IF slot.some THEN Some([slot.v EXCEPT !.payload = <<48>>]) ELSE None

\* lines 123-131: the value returned on the rejection path
ErrorResponse(slot) ==
    IF slot.some
    THEN Some([slot.v EXCEPT !.payload = <<48>>, !.code = "BadOption"])
    ELSE None

\* the success path answering with the error marker as body
SuccessResponse_Marker(slot) ==
    IF slot.some
    THEN Some([slot.v EXCEPT !.payload = <<48>>, !.code = "Valid"])
    ELSE None

\* lines 134-142: the value returned after the write
SuccessResponse(slot) ==
    IF slot.some
    THEN Some([slot.v EXCEPT !.payload = <<>>, !.code = "Valid"])
    ELSE None

\* a lock() that returns whether or not a guard is alive
MutexAvailable_Always(m) == m.locked \/ ~m.locked

\* Mutex::lock() returns only while no guard of the mutex is alive
MutexAvailable(m) == ~m.locked

\* a write that is not awaited: the handler goes on at once
WriteReady_NotAwaited(o) == o \in {"InFlight", "Ok", "Err"}

\* the write future of line 119 is ready: the sink has answered
WriteReady(o) == o \in {"Ok", "Err"}

Unlocked == [locked |-> FALSE, poisoned |-> FALSE]

\* lock() has returned a guard
Locked(m) == [m EXCEPT !.locked = TRUE]

\* a mutex that is not poisoned by a guard dropped during a panic
Unlock_NoPoison(m, panicking) == [locked |-> FALSE, poisoned |-> m.poisoned]

\* a MutexGuard is dropped: the mutex is unlocked, and poisoned when the
\* drop happens during a panic
Unlock(m, panicking) == [locked |-> FALSE, poisoned |-> m.poisoned \/ panicking]

\* a guard that is forgotten instead of dropped: the mutex stays as it is
Drop_Leaked(m, name, held, panicking) == m

\* the mutex after handler r drops the guard `name`, if it has one
Drop(m, name, held, panicking) ==
    IF name \in held THEN Unlock(m, panicking) ELSE m

NoRequest == [method |-> "none", payload |-> <<>>, response |-> None]

VARIABLES
    pc,         \* where each handler is
    request,    \* the request each handler was called with
    points,     \* the local vec `points` of each handler
    client,     \* Mutex around the InfluxDB client
    bucket,     \* Mutex around the bucket name
    guards,     \* the MutexGuards alive in each handler
    calls,      \* per handler, the write calls it made: destination, points
    outcome,    \* per handler, the state of its write at the sink
    reads,      \* which guards were held at each use of client and bucket
    returned,   \* the value each handler returned
    fault,      \* the unwrap() that panicked in each handler
    alive,      \* the process is running
    workers     \* the number of threads that poll the handlers: the worker
                \* threads of the runtime, or the one thread of main

\* one payload taken through lines 102-115 on its own
VARIABLES
    text,       \* the bytes of the payload
    origin,     \* the payload before it was altered
    edits,      \* how many alterations were made to it
    last,       \* the latest alteration
    verdict,    \* the value of the condition of line 103 for a PUT request
    pieces,     \* payload[17..].split(',') collected
    decoded     \* the struct literal of lines 104-115, or the panic in it

codec == <<text, origin, edits, last, verdict, pieces, decoded>>

\* the task of lines 73-86
VARIABLES
    registrar   \* where the service registration is

vars == <<pc, request, points, client, bucket, guards, calls, outcome, reads,
          returned, fault, alive, workers, codec, registrar>>

\* requests are numbered as they arrive: r is the next one the transport
\* calls the handler with
Arrives(r) == pc[r] = "Pending" /\ \A q \in 1..(r - 1) : pc[q] # "Pending"

\* the handler is on a worker thread: polled, and not suspended in an await
Running(r) == pc[r] \in {"LockClient", "LockBucket", "Writing"}

\* the threads that poll handlers right now
Polling == Cardinality({r \in Reqs : Running(r)})

\* line 80: the thread that polled the registration task is parked in it
Parked == IF registrar = "Parked" THEN 1 ELSE 0

\* a worker thread is free to poll a task
WorkerFree == Polling + Parked < workers

NoEdit == [op |-> "none", at |-> 0, byte |-> 0]

\* no payload is looked at on its own
CodecIdle ==
    /\ text = <<>>
    /\ origin = <<>>
    /\ edits = 0
    /\ last = NoEdit
    /\ verdict = None
    /\ pieces = <<>>
    /\ decoded = None

\* no request has arrived
HandlersIdle ==
    /\ pc = [r \in Reqs |-> "Pending"]
    /\ request = [r \in Reqs |-> NoRequest]
    /\ points = [r \in Reqs |-> <<>>]
    /\ client = Unlocked
    /\ bucket = Unlocked
    /\ guards = [r \in Reqs |-> {}]
    /\ calls = [r \in Reqs |-> <<>>]
    /\ outcome = [r \in Reqs |-> "none"]
    /\ reads = {}
    /\ returned = [r \in Reqs |-> None]
    /\ fault = [r \in Reqs |-> "none"]
    /\ alive = TRUE

\* the request loop in the runs where the registration has failed and its
\* task has ended (a parked registration task leaves the handlers the same
\* runtime with one thread less: Startup below)
Init ==
    /\ HandlersIdle
    /\ workers \in 1..MaxWorkers
    /\ registrar = "Failed"
    /\ CodecIdle

\* lines 101-115: the way the handler takes up to its first lock(), decided
\* by the request alone
Path(req) ==
    IF ~from_utf8_ok(req.payload) THEN "from_utf8"
    ELSE IF ~Accepted(req) THEN "reject"
    ELSE IF ~DecodeOk(req.payload) THEN "decode"
    ELSE "build"

\* the graph of Path over the requests of the model
PathOf == {<<req, Path(req)>> : req \in Requests}

\* line 102: String::from_utf8(..).unwrap() panics on bytes that are no UTF-8
PanicUtf8(r) ==
    /\ alive /\ Arrives(r) /\ WorkerFree
    /\ \E req \in Requests :
        /\ <<req, "from_utf8">> \in PathOf
        /\ request' = [request EXCEPT ![r] = req]
    /\ pc' = [pc EXCEPT ![r] = "Panicked"]
    /\ fault' = [fault EXCEPT ![r] = "from_utf8"]
    /\ UNCHANGED <<points, client, bucket, guards, calls, outcome, reads, returned,
                   alive, workers>>
    /\ UNCHANGED <<codec, registrar>>

\* lines 103, 121-131: the condition is false, the error response is returned
Reject(r) ==
    /\ alive /\ Arrives(r) /\ WorkerFree
    /\ \E req \in Requests :
        /\ <<req, "reject">> \in PathOf
        /\ request' = [request EXCEPT ![r] = req]
        /\ returned' = [returned EXCEPT ![r] = ErrorResponse(req.response)]
    /\ pc' = [pc EXCEPT ![r] = "RespondedError"]
    /\ UNCHANGED <<points, client, bucket, guards, calls, outcome, reads, fault,
                   alive, workers>>
    /\ UNCHANGED <<codec, registrar>>

\* lines 103-115: the condition is true and the struct literal is evaluated;
\* a slice, nth(k).unwrap() or parse().unwrap() of it that fails panics
Build(r) ==
    /\ alive /\ Arrives(r) /\ WorkerFree
    /\ \E req \in Requests, now \in Instants :
        /\ (<<req, "build">> \in PathOf \/ <<req, "decode">> \in PathOf)
        /\ request' = [request EXCEPT ![r] = req]
        /\ IF <<req, "build">> \in PathOf
           THEN /\ points' = [points EXCEPT ![r] = Points(req.payload, now)]
                /\ pc' = [pc EXCEPT ![r] = "LockClient"]
                /\ UNCHANGED fault
           ELSE /\ pc' = [pc EXCEPT ![r] = "Panicked"]
                /\ fault' = [fault EXCEPT ![r] = "decode"]
                /\ UNCHANGED points
    /\ UNCHANGED <<client, bucket, guards, calls, outcome, reads, returned, alive, workers>>
    /\ UNCHANGED <<codec, registrar>>

\* line 116: client.lock().unwrap(); the thread blocks while the guard is
\* held elsewhere, and unwrap() panics on a poisoned mutex
LockClient(r) ==
    /\ alive /\ pc[r] = "LockClient"
    /\ MutexAvailable(client)
    /\ IF client.poisoned
       THEN /\ pc' = [pc EXCEPT ![r] = "Panicked"]
            /\ fault' = [fault EXCEPT ![r] = "client_poisoned"]
            /\ UNCHANGED <<client, guards>>
       ELSE /\ pc' = [pc EXCEPT ![r] = "LockBucket"]
            /\ client' = Locked(client)
            /\ guards' = [guards EXCEPT ![r] = @ \cup {"client"}]
            /\ UNCHANGED fault
    /\ UNCHANGED <<request, points, bucket, calls, outcome, reads, returned, alive, workers>>
    /\ UNCHANGED <<codec, registrar>>

\* line 118: bucket.lock().unwrap(), with the client guard alive
LockBucket(r) ==
    /\ alive /\ pc[r] = "LockBucket"
    /\ MutexAvailable(bucket)
    /\ IF bucket.poisoned
       THEN /\ pc' = [pc EXCEPT ![r] = "Panicked"]
            /\ fault' = [fault EXCEPT ![r] = "bucket_poisoned"]
            /\ client' = Drop(client, "client", guards[r], TRUE)
            /\ guards' = [guards EXCEPT ![r] = {}]
            /\ UNCHANGED bucket
       ELSE /\ pc' = [pc EXCEPT ![r] = "Writing"]
            /\ bucket' = Locked(bucket)
            /\ guards' = [guards EXCEPT ![r] = @ \cup {"bucket"}]
            /\ UNCHANGED <<client, fault>>
    /\ UNCHANGED <<request, points, calls, outcome, reads, returned, alive, workers>>
    /\ UNCHANGED <<codec, registrar>>

\* line 119: client.write(&*bucket, stream::iter(points)) is called and the
\* handler is suspended in the await
Write(r) ==
    /\ alive /\ pc[r] = "Writing"
    /\ calls' = [calls EXCEPT ![r] =
                    Append(@, [bucket |-> BucketName, points |-> points[r]])]
    /\ reads' = reads \cup {[by |-> r, held |-> guards[r]]}
    /\ outcome' = [outcome EXCEPT ![r] = "InFlight"]
    /\ pc' = [pc EXCEPT ![r] = "AwaitWrite"]
    /\ UNCHANGED <<request, points, client, bucket, guards, returned, fault, alive, workers>>
    /\ UNCHANGED <<codec, registrar>>

\* the storage sink answers the write: Ok(()) or Err(RequestError)
SinkAnswers(r, result) ==
    /\ alive /\ outcome[r] = "InFlight"
    /\ outcome' = [outcome EXCEPT ![r] = result]
    /\ UNCHANGED <<pc, request, points, client, bucket, guards, calls, reads,
                   returned, fault, alive, workers>>
    /\ UNCHANGED <<codec, registrar>>

\* lines 119-142 after Ok: the guards are dropped at the end of the block and
\* the success response is returned
Respond(r) ==
    /\ alive /\ pc[r] = "AwaitWrite" /\ WorkerFree
    /\ WriteReady(outcome[r])
    /\ outcome[r] # "Err"
    /\ bucket' = Drop(bucket, "bucket", guards[r], FALSE)
    /\ client' = Drop(client, "client", guards[r], FALSE)
    /\ guards' = [guards EXCEPT ![r] = {}]
    /\ returned' = [returned EXCEPT ![r] = SuccessResponse(request[r].response)]
    /\ pc' = [pc EXCEPT ![r] = "RespondedSuccess"]
    /\ UNCHANGED <<request, points, calls, outcome, reads, fault, alive, workers>>
    /\ UNCHANGED <<codec, registrar>>

\* line 119 after Err: unwrap() panics and the unwinding drops both guards
PanicWrite(r) ==
    /\ alive /\ pc[r] = "AwaitWrite" /\ WorkerFree
    /\ WriteReady(outcome[r])
    /\ outcome[r] = "Err"
    /\ bucket' = Drop(bucket, "bucket", guards[r], TRUE)
    /\ client' = Drop(client, "client", guards[r], TRUE)
    /\ guards' = [guards EXCEPT ![r] = {}]
    /\ pc' = [pc EXCEPT ![r] = "Panicked"]
    /\ fault' = [fault EXCEPT ![r] = "write_failed"]
    /\ UNCHANGED <<request, points, calls, outcome, reads, returned, alive, workers>>
    /\ UNCHANGED <<codec, registrar>>

\* a panic of the handler unwinds into whatever polls it: where that is the
\* future of main (lines 94-146), the process ends
Abort ==
    /\ alive
    /\ \E r \in Reqs : pc[r] = "Panicked"
    /\ alive' = FALSE
    /\ UNCHANGED <<pc, request, points, client, bucket, guards, calls, outcome,
                   reads, returned, fault, workers>>
    /\ UNCHANGED <<codec, registrar>>

Next ==
    \/ \E r \in Reqs : PanicUtf8(r)
    \/ \E r \in Reqs : Reject(r)
    \/ \E r \in Reqs : Build(r)
    \/ \E r \in Reqs : LockClient(r)
    \/ \E r \in Reqs : LockBucket(r)
    \/ \E r \in Reqs : Write(r)
    \/ \E r \in Reqs, result \in {"Ok", "Err"} : SinkAnswers(r, result)
    \/ \E r \in Reqs : Respond(r)
    \/ \E r \in Reqs : PanicWrite(r)
    \/ Abort

Spec == Init /\ [][Next]_vars

(***************************************************************************)
(* Fair scheduling: a handler that can take a step is eventually polled,   *)
(* a lock() that can return again and again eventually returns, and the    *)
(* sink answers every write.                                               *)
(***************************************************************************)
Fairness ==
    \A r \in Reqs :
        /\ SF_vars(LockClient(r))
        /\ SF_vars(LockBucket(r))
        /\ WF_vars(Write(r))
        /\ WF_vars(\E result \in {"Ok", "Err"} : SinkAnswers(r, result))
        /\ WF_vars(Respond(r))
        /\ WF_vars(PanicWrite(r))

FairSpec == Spec /\ Fairness

(***************************************************************************)
(* The program from the spawn of the registration task (line 73) on: the   *)
(* task is polled by a worker thread of the runtime while the request loop *)
(* runs.                                                                   *)
(***************************************************************************)
\* lines 74-85: register() returns; on Ok the task calls std::thread::park()
\* and keeps the worker thread that polls it, on Err it prints and ends
Register(result) ==
    /\ alive /\ registrar = "Spawned"
    /\ Polling < workers
    /\ registrar' = IF result = "Ok" THEN "Parked" ELSE "Failed"
    /\ UNCHANGED <<pc, request, points, client, bucket, guards, calls, outcome,
                   reads, returned, fault, alive, workers, codec>>

\* line 80: park() may return without an unpark; the task then ends
SpuriousWake ==
    /\ alive /\ registrar = "Parked"
    /\ registrar' = "Woken"
    /\ UNCHANGED <<pc, request, points, client, bucket, guards, calls, outcome,
                   reads, returned, fault, alive, workers, codec>>

Startup ==
    /\ HandlersIdle
    /\ workers \in 1..MaxWorkers
    /\ registrar = "Spawned"
    /\ CodecIdle

BootNext ==
    \/ \E result \in {"Ok", "Err"} : Register(result)
    \/ SpuriousWake
    \/ Next

BootSpec == Startup /\ [][BootNext]_vars

\* the transport calls the handler with every request it has received, as
\* soon as a thread can poll it
Delivery ==
    \A r \in Reqs : WF_vars(PanicUtf8(r) \/ Reject(r) \/ Build(r))

FairBootSpec == BootSpec /\ Fairness /\ Delivery

(***************************************************************************)
(* The validator and the decoder on their own: one payload, altered up to  *)
(* MaxEdits times, is taken through lines 102-115 as the payload of a PUT  *)
(* request.                                                                *)
(***************************************************************************)
\* most alterations made to a payload
MaxEdits == 1

\* "0004A30B00112233,9,1,2,3,4,5,-6,7"
ShortA == [id |-> RecA.id, f |-> <<9, 1, 2, 3, 4, 5, -6, 7>>]

\* "00aaBBccDDeeff99,0,-1,20,3,4,5,6,7"
ShortB == [id |-> RecB.id, f |-> <<0, -1, 20, 3, 4, 5, 6, 7>>]

\* the payloads the alterations start from
Origins == {Wire(ShortA), Wire(ShortB), <<>>}

\* the characters an alteration puts in: 7 , - . g, a line feed and the
\* two bytes of U+00E9
Chars == {<<55>>, <<Comma>>, <<Minus>>, <<Dot>>, <<103>>, <<10>>, <<195, 169>>}

\* the fields an alteration adds
ExtraFields == {IntText(4), IntText(-4)}

\* s with c put in after its first i bytes
InsertAt(s, i, c) == SubSeq(s, 1, i) \o c \o SubSeq(s, i + 1, Len(s))

\* s without its byte i
RemoveAt(s, i) == SubSeq(s, 1, i - 1) \o SubSeq(s, i + 1, Len(s))

\* s with c in the place of its byte i
ReplaceAt(s, i, c) == SubSeq(s, 1, i - 1) \o c \o SubSeq(s, i + 1, Len(s))

\* the pieces put together again with sep between them
RECURSIVE Join(_, _)
Join(parts, sep) ==
    IF Len(parts) = 0 THEN <<>>
    ELSE IF Len(parts) = 1 THEN parts[1]
    ELSE parts[1] \o <<sep>> \o Join(Tail(parts), sep)

handlers == <<pc, request, points, client, bucket, guards, calls, outcome, reads,
              returned, fault, alive, workers, registrar>>

\* the payload is still being put together
Editing == verdict = None /\ edits < MaxEdits

\* the payload that arrives has one character more
InsertChar ==
    /\ Editing
    /\ \E i \in 0..Len(text), c \in Chars :
        /\ text' = InsertAt(text, i, c)
        /\ last' = [op |-> "insert", at |-> i + 1, byte |-> c[1]]
    /\ edits' = edits + 1
    /\ UNCHANGED <<origin, verdict, pieces, decoded, handlers>>

\* ... one byte less
RemoveByte ==
    /\ Editing
    /\ \E i \in 1..Len(text) :
        /\ text' = RemoveAt(text, i)
        /\ last' = [op |-> "remove", at |-> i, byte |-> text[i]]
    /\ edits' = edits + 1
    /\ UNCHANGED <<origin, verdict, pieces, decoded, handlers>>

\* ... another character in one place of the device id
ReplaceIdChar ==
    /\ Editing
    /\ \E i \in 1..IdLen, c \in Chars :
        /\ i <= Len(text)
        /\ c # <<text[i]>>
        /\ text' = ReplaceAt(text, i, c)
        /\ last' = [op |-> "replace", at |-> i, byte |-> c[1]]
    /\ edits' = edits + 1
    /\ UNCHANGED <<origin, verdict, pieces, decoded, handlers>>

\* ... one field more, after its piece k
AddField ==
    /\ Editing
    /\ \E k \in 1..(Groups + 1), f \in ExtraFields :
        LET parts == Split(text, Comma)
        IN  /\ k <= Len(parts)
            /\ text' = Join(SubSeq(parts, 1, k) \o <<f>>
                                \o SubSeq(parts, k + 1, Len(parts)), Comma)
            /\ last' = [op |-> "add_field", at |-> k, byte |-> 0]
    /\ edits' = edits + 1
    /\ UNCHANGED <<origin, verdict, pieces, decoded, handlers>>

\* ... one field less: its field k is left out
RemoveField ==
    /\ Editing
    /\ \E k \in 1..Groups :
        LET parts == Split(text, Comma)
        IN  /\ k + 1 <= Len(parts)
            /\ text' = Join(SubSeq(parts, 1, k) \o SubSeq(parts, k + 2, Len(parts)),
                            Comma)
            /\ last' = [op |-> "remove_field", at |-> k, byte |-> 0]
    /\ edits' = edits + 1
    /\ UNCHANGED <<origin, verdict, pieces, decoded, handlers>>

\* lines 102-115 for a PUT request with the payload `text`: the payload is a
\* String (line 102), the condition of line 103 is evaluated and, where it
\* is true, the struct literal
Decode ==
    /\ verdict = None
    /\ from_utf8_ok(text)
    /\ verdict' = Some(is_match(text))
    /\ IF verdict'.v
       THEN /\ pieces' = IF SliceFromOk(text, IdLen + 1)
                         THEN Split(SliceFrom(text, IdLen + 1), Comma)
                         ELSE <<>>
            /\ decoded' = IF DecodeOk(text)
                          THEN Some(Ok(GasSentinelDataPoint(text, 0)))
                          ELSE Some(Err)
       ELSE UNCHANGED <<pieces, decoded>>
    /\ UNCHANGED <<text, origin, edits, last, handlers>>

CodecInit ==
    /\ HandlersIdle
    /\ workers = 1
    /\ registrar = "Failed"
    /\ text \in Origins
    /\ origin = text
    /\ edits = 0
    /\ last = NoEdit
    /\ verdict = None
    /\ pieces = <<>>
    /\ decoded = None

CodecNext ==
    \/ InsertChar
    \/ RemoveByte
    \/ ReplaceIdChar
    \/ AddField
    \/ RemoveField
    \/ Decode

CodecSpec == CodecInit /\ [][CodecNext]_vars

(***************************************************************************)
(* What the properties speak about.                                        *)
(***************************************************************************)
\* payloads that conform to the wire format, by construction
Conforming == {Wire(rec) : rec \in Records}

\* the records and their wire form
WireOf == {<<rec, Wire(rec)>> : rec \in Records}

\* the record a conforming payload was printed from
RecordOf(payload) == CHOOSE rec \in Records : <<rec, payload>> \in WireOf

\* the handler of r has been called
Called(r) == pc[r] # "Pending"

\* the handler of r has ended: it returned, or its task panicked
Ended(r) == pc[r] \in {"RespondedSuccess", "RespondedError", "Panicked"}

\* the handler of r has returned to the transport
Returned(r) == pc[r] \in {"RespondedSuccess", "RespondedError"}

\* r is a store request with a conforming payload
ValidPut(r) == request[r].method = "Put" /\ request[r].payload \in Conforming

\* r is a request the handler has to refuse
Invalid(r) ==
    Called(r) /\ (request[r].method # "Put" \/ request[r].payload \in Malformed)

\* the two responses of the protocol
BadOptionResponse == [payload |-> <<48>>, code |-> "BadOption"]
ValidResponse == [payload |-> <<>>, code |-> "Valid"]

\* the values of the fields a payload carries
FieldValues(rec) == {Num(rec.f[i]) : i \in 1..Len(rec.f)}

\* C1: a request with another method than PUT, or with a payload that fails
\* the schema, causes no write call and, when it carries a response slot, gets
\* the error response: body "0", status BadOption.
C1_RejectedGetsBadOption ==
    \A r \in Reqs :
        Invalid(r) =>
            /\ calls[r] = <<>>
            /\ request[r].response.some => returned[r] = Some(BadOptionResponse)

\* C2 as stated: a PUT request with a conforming payload whose write succeeded
\* made exactly one write call with exactly one point, and once its handler
\* has resumed it has returned a response with empty body and status Valid.
C2_Original ==
    \A r \in Reqs :
        (ValidPut(r) /\ outcome[r] = "Ok") =>
            /\ Len(calls[r]) = 1
            /\ Len(calls[r][1].points) = 1
            /\ pc[r] \in {"AwaitWrite", "RespondedSuccess"}
            /\ pc[r] = "RespondedSuccess" => returned[r] = Some(ValidResponse)

\* C2: a PUT request with a conforming payload whose write succeeded made
\* exactly one write call with exactly one point, and once its handler has
\* resumed it has returned the response with empty body and status Valid when
\* the request carries a response slot, and no response when it carries none.
C2_OneWriteThenValid ==
    \A r \in Reqs :
        (ValidPut(r) /\ outcome[r] = "Ok") =>
            /\ Len(calls[r]) = 1
            /\ Len(calls[r][1].points) = 1
            /\ pc[r] \in {"AwaitWrite", "RespondedSuccess"}
            /\ pc[r] = "RespondedSuccess" =>
                returned[r] = IF request[r].response.some
                              THEN Some(ValidResponse) ELSE None

\* a PUT request with a response slot and a conforming payload was written
\* and answered
C2_Witness ==
    \E r \in Reqs :
        /\ ValidPut(r) /\ request[r].response.some
        /\ outcome[r] = "Ok" /\ pc[r] = "RespondedSuccess"

\* C3: where the write of one request failed, another valid PUT request whose
\* own write the sink does not refuse still ends with one write call and the
\* success response.
C3_LaterRequestSucceeds ==
    \A q, r \in Reqs :
        (/\ q # r
         /\ fault[q] = "write_failed"
         /\ ValidPut(r) /\ Ended(r) /\ outcome[r] # "Err") =>
            /\ pc[r] = "RespondedSuccess"
            /\ Len(calls[r]) = 1

\* C4: a handler whose write the sink refused does not panic and the process
\* keeps running; the handler returns, and what it returns to a request with a
\* response slot is a response other than BadOption "0" (and other than the
\* success response).
C4_WriteFailureAnswered ==
    \A r \in Reqs :
        (outcome[r] = "Err" /\ pc[r] # "AwaitWrite") =>
            /\ pc[r] # "Panicked"
            /\ alive
            /\ Returned(r)
            /\ request[r].response.some =>
                /\ returned[r].some
                /\ returned[r].v \notin {BadOptionResponse, ValidResponse}

\* C5: at most one handler holds a guard of the client, at most one holds a
\* guard of the bucket, at most one write call is in flight, and every use of
\* the client and of the bucket name was made by a handler holding both guards.
C5_WritesSerialized ==
    /\ Cardinality({r \in Reqs : "client" \in guards[r]}) <= 1
    /\ Cardinality({r \in Reqs : "bucket" \in guards[r]}) <= 1
    /\ Cardinality({r \in Reqs : pc[r] = "AwaitWrite"}) <= 1
    /\ \A rd \in reads : rd.held = {"client", "bucket"}

\* one handler is suspended in its write with both guards while another one
\* is waiting in client.lock()
C5_Witness ==
    \E q, r \in Reqs :
        /\ q # r
        /\ pc[q] = "AwaitWrite" /\ guards[q] = {"client", "bucket"}
        /\ pc[r] = "LockClient"

\* at least two requests were delivered, all of them PUT requests with
\* conforming payloads, no two with the same payload, and the sink has
\* refused no write
ConcurrentValid ==
    /\ Cardinality({r \in Reqs : Called(r)}) >= 2
    /\ \A r \in Reqs : Called(r) => ValidPut(r)
    /\ \A q, r \in Reqs :
        (Called(q) /\ Called(r) /\ q # r) => request[q].payload # request[r].payload
    /\ \A r \in Reqs : outcome[r] # "Err"

\* the point belongs to the record: its device id is the record's id and each
\* measurement is the value of one of the record's fields
PointFrom(point, rec) ==
    /\ point.device_eui64 = rec.id
    /\ {point.temp, point.hum, point.pres, point.cl1, point.cl2, point.rssi,
        point.vbat} \subseteq FieldValues(rec)

\* every point a handler wrote belongs to the record of its own request
OwnPoints(r) ==
    \A i \in 1..Len(calls[r]) :
        \A j \in 1..Len(calls[r][i].points) :
            PointFrom(calls[r][i].points[j], RecordOf(request[r].payload))

C7_RunsToCompletion ==
    ([]alive) =>
        \A r \in Reqs :
            /\ (pc[r] = "LockClient") ~> ("client" \in guards[r])
            /\ (pc[r] = "LockClient") ~> Returned(r)

\* C8: an accepted request is answered only after the sink has answered its
\* write, and the success response only after the write has succeeded.
C8_ResponseAfterWrite ==
    \A r \in Reqs :
        /\ (ValidPut(r) /\ Returned(r)) => outcome[r] \in {"Ok", "Err"}
        /\ pc[r] = "RespondedSuccess" => outcome[r] = "Ok"

\* a valid request got the success response
C8_Witness ==
    \E r \in Reqs :
        /\ ValidPut(r) /\ pc[r] = "RespondedSuccess"
        /\ returned[r] = Some(ValidResponse)

\* C9: a request whose payload does not conform to the wire format, text or
\* not, ends in Responded-Error with the error response, never in a panic.
C9_MalformedRecoverable ==
    \A r \in Reqs :
        (Called(r) /\ request[r].payload \in Malformed) =>
            /\ pc[r] = "RespondedError"
            /\ fault[r] = "none"
            /\ request[r].response.some => returned[r] = Some(BadOptionResponse)

\* C10: every response a handler returned is the success response (empty
\* body, Valid) or the error response (body "0", BadOption).
C10_TwoResponses ==
    \A r \in Reqs :
        returned[r].some => returned[r].v \in {ValidResponse, BadOptionResponse}

\* both responses have been returned
C10_Witness ==
    /\ \E r \in Reqs : returned[r] = Some(ValidResponse)
    /\ \E r \in Reqs : returned[r] = Some(BadOptionResponse)

\* the same request without its response slot
WithoutSlot(req) == [req EXCEPT !.response = None]

\* the way a handler takes to its first lock() is the same with and without
\* a response slot
SlotBlind == \A req \in Requests : Path(WithoutSlot(req)) = Path(req)

\* C11: a request without a response slot gets no response, on the success
\* path and on the error path, and its writes are those of the same request
\* with a slot: none for a request the handler has to refuse, at most one for
\* a valid PUT request and exactly one once its handler has returned.
C11_NoSlotNoResponse ==
    /\ SlotBlind
    /\ \A r \in Reqs :
        (Called(r) /\ ~request[r].response.some) =>
            /\ returned[r] = None
            /\ Invalid(r) => calls[r] = <<>>
            /\ ValidPut(r) => Len(calls[r]) <= 1
            /\ (ValidPut(r) /\ Returned(r)) =>
                (pc[r] = "RespondedSuccess" /\ Len(calls[r]) = 1)

\* a valid PUT request and a refused request, both without a response slot,
\* have run through the success path and the error path
C11_Witness ==
    \E q, r \in Reqs :
        /\ ~request[q].response.some /\ ValidPut(q) /\ pc[q] = "RespondedSuccess"
        /\ ~request[r].response.some /\ Invalid(r) /\ pc[r] = "RespondedError"

\* the characters 0-9, A-F and a-f
HexChars ==
    {48, 49, 50, 51, 52, 53, 54, 55, 56, 57, 65, 66, 67, 68, 69, 70,
     97, 98, 99, 100, 101, 102}

\* the characters 0-9
DigitChars == {48, 49, 50, 51, 52, 53, 54, 55, 56, 57}

\* one or more digits with an optional '-' in front
IntegerShaped(tok) ==
    LET d == IF Len(tok) >= 1 /\ tok[1] = Minus THEN Tail(tok) ELSE tok
    IN  Len(d) >= 1 /\ \A i \in 1..Len(d) : d[i] \in DigitChars

\* the whole string is 16 hexadecimal characters followed by exactly 8 groups
\* of a comma, an optional '-' and one or more digits
SchemaShaped(s) ==
    LET parts == Split(s, Comma)
    IN  /\ Len(parts) = 9
        /\ Len(parts[1]) = 16
        /\ \A i \in 1..16 : parts[1][i] \in HexChars
        /\ \A k \in 2..9 : IntegerShaped(parts[k])

\* the payload was taken through the validator
Validated == verdict # None

\* the validator accepted the payload
Passed == verdict = Some(TRUE)

\* the validator rejected the payload
Failed == verdict = Some(FALSE)

\* C12: the validator accepts a payload if and only if the whole string is 16
\* hexadecimal characters followed by exactly 8 groups of a comma, an optional
\* '-' and one or more digits; so the empty string, a string with a character
\* before or after such a payload, and every other string not of this shape
\* is rejected.
C12_ValidatorIff ==
    Validated =>
        /\ Passed <=> SchemaShaped(text)
        /\ text = <<>> => Failed
        /\ (SchemaShaped(origin) /\ edits = 1 /\ last.op = "insert"
                /\ last.at \in {1, Len(text)} /\ last.byte \notin DigitChars) => Failed

\* a payload of the right shape with a line feed after it was rejected
C12_Witness ==
    /\ SchemaShaped(origin) /\ edits = 1
    /\ last = [op |-> "insert", at |-> Len(text), byte |-> 10]
    /\ Failed

\* the latest alteration put a digit in
DigitInserted == last.op = "insert" /\ last.byte \in DigitChars

\* the latest alteration is one of: a comma removed, a character of the
\* device id replaced by one that is no hexadecimal character, a field added
\* or removed
OtherListedEdit ==
    \/ last.op = "remove" /\ last.byte = Comma
    \/ last.op = "replace" /\ last.at <= 16 /\ last.byte \notin HexChars
    \/ last.op \in {"add_field", "remove_field"}

\* C13 as stated: a payload of the right shape altered once, by an extra
\* digit inserted anywhere, a comma removed, a character of the device id
\* replaced by a non-hex character, or a field added or removed, is rejected.
C13_Original ==
    (Validated /\ SchemaShaped(origin) /\ edits = 1
        /\ (DigitInserted \/ OtherListedEdit)) => Failed

\* C13: a payload of the right shape altered once, by an extra digit inserted
\* into the device id, a comma removed, a character of the device id replaced
\* by a non-hex character, or a field added or removed, is rejected.
C13_OneEditRejected ==
    (Validated /\ SchemaShaped(origin) /\ edits = 1
        /\ ((DigitInserted /\ last.at <= 17) \/ OtherListedEdit)) => Failed

\* a payload of the right shape with a character of its device id replaced
\* by the letter g was rejected
C13_Witness ==
    /\ SchemaShaped(origin) /\ edits = 1
    /\ last.op = "replace" /\ last.byte = 103
    /\ Failed

\* the numeric fields f1..f8 of a payload of the right shape
FieldTokens(s) == Tail(Split(s, Comma))

\* the integer a token of the right shape denotes
IntOf(tok) ==
    IF tok[1] = Minus THEN 0 - DecValue(Tail(tok)) ELSE DecValue(tok)

\* C14: for every payload the validator accepts, with the fields f1..f8 after
\* the device id, the point has the first 16 characters as device id and
\* temp = f2, hum = f3, pres = f4, cl1 = f5, cl2 = f6, rssi = f7, vbat = f8,
\* each read as a number; f1 is in no field of the point.
C14_FieldMapping ==
    Passed =>
        LET f == FieldTokens(text)
        IN  decoded = Some(Ok([device_eui64 |-> SubSeq(text, 1, 16),
                               temp |-> Num(IntOf(f[2])),
                               hum |-> Num(IntOf(f[3])),
                               pres |-> Num(IntOf(f[4])),
                               cl1 |-> Num(IntOf(f[5])),
                               cl2 |-> Num(IntOf(f[6])),
                               rssi |-> Num(IntOf(f[7])),
                               vbat |-> Num(IntOf(f[8])),
                               time |-> 0]))

\* an accepted payload whose f1 is another number than every field of the
\* point was decoded
C14_Witness ==
    /\ Passed /\ decoded # None /\ decoded.v.ok
    /\ LET f == FieldTokens(text)
           pt == decoded.v.v
       IN  Num(IntOf(f[1])) \notin
               {pt.temp, pt.hum, pt.pres, pt.cl1, pt.cl2, pt.rssi, pt.vbat}

\* the measurements of a decoded point, in the order of the struct literal
Measurements(pt) == <<pt.temp, pt.hum, pt.pres, pt.cl1, pt.cl2, pt.rssi, pt.vbat>>

\* the numbers read from the tokens at the 0-based positions from..to
Readings(toks, from, to) ==
    [i \in 1..(to - from + 1) |-> parse(toks[from + i]).v]

\* C17 as stated: for an accepted payload the substring after the device id
\* is split into exactly 9 tokens, an artifact at position 0 and the 8
\* numeric fields at positions 1-8; positions 1-7 are bound to temp, hum,
\* pres, cl1, cl2, rssi, vbat and position 8 to nothing.
C17_Original ==
    Passed =>
        /\ Len(pieces) = 9
        /\ SubSeq(pieces, 2, 9) = FieldTokens(text)
        /\ decoded # None /\ decoded.v.ok
        /\ Measurements(decoded.v.v) = Readings(pieces, 1, 7)

\* C17: for an accepted payload the substring after the device id and its
\* comma is split into exactly 8 tokens, the 8 numeric fields at positions
\* 0-7 and no artifact; positions 1-7 are bound to temp, hum, pres, cl1, cl2,
\* rssi, vbat in that order, and position 0, the first numeric field, is
\* bound to nothing.
C17_EightTokens ==
    Passed =>
        /\ Len(pieces) = 8
        /\ pieces = FieldTokens(text)
        /\ decoded # None /\ decoded.v.ok
        /\ Measurements(decoded.v.v) = Readings(pieces, 1, 7)

\* an accepted payload was split and decoded, and the token at position 0 is
\* another one than the token bound to temp
C17_Witness ==
    /\ Passed /\ decoded # None /\ decoded.v.ok
    /\ Len(pieces) = 8
    /\ pieces[1] # pieces[2]
    /\ decoded.v.v.vbat = parse(pieces[8]).v

\* C19: for every payload the validator accepts the struct literal is
\* evaluated without a panic: the slices at 16 and 17 are in bounds, the
\* split has tokens at positions 1 through 7 and each of them parses as a
\* number; a payload for which the literal would panic is one the validator
\* rejects.
C19_DecodeCannotFail ==
    /\ Passed =>
        /\ decoded # None /\ decoded.v.ok
        /\ SliceToOk(text, 16) /\ SliceFromOk(text, 17)
        /\ \A k \in 1..7 : nth(pieces, k).some /\ parse(nth(pieces, k).v).ok
    /\ ~Validated \/ Failed \/ DecodeOk(text)

\* a payload altered by one edit was accepted and decoded
C19_Witness ==
    /\ Passed /\ edits = 1 /\ text # origin
    /\ decoded # None /\ decoded.v.ok

\* r is a PUT request with the payload
\* 0004A30B00112233,0,21.5,1012,99.8,31.0,28.7,-72,32.98
DecimalPut(r) == request[r].method = "Put" /\ request[r].payload = DecimalPayload

\* C15: a PUT request with the decimal payload is accepted: its handler does
\* not refuse it, and once it has returned it has made exactly one write call
\* with one point whose device id is the first 16 characters and whose temp
\* is 21.5, and has returned the response with empty body and status Valid.
C15_DecimalAccepted ==
    \A r \in Reqs :
        (Called(r) /\ DecimalPut(r)) =>
            /\ pc[r] # "RespondedError"
            /\ Returned(r) =>
                /\ Len(calls[r]) = 1
                /\ Len(calls[r][1].points) = 1
                /\ calls[r][1].points[1].device_eui64 = RecA.id
                /\ calls[r][1].points[1].temp = Normal(215, -1)
                /\ request[r].response.some => returned[r] = Some(ValidResponse)

\* C16: whether the registration succeeds (and its task blocks) or fails,
\* the process is not aborted by it, the request loop starts and the
\* requests are handled: the process stays alive as long as no handler has
\* panicked, and the handler is eventually called with the first request.
C16_RegistrationNoEffect ==
    /\ []((\A r \in Reqs : pc[r] # "Panicked") => alive)
    /\ <>Called(1)

\* the handler of r is at a lock() or between the first lock() and the end
\* of the block of the write
AtGuard(r) == pc[r] \in {"LockClient", "LockBucket", "Writing", "AwaitWrite"}

\* C18: a handler holds a guard only from its lock() to the end of its write
\* (a mutex is locked exactly while a handler holds its guard); when a handler
\* asks for the guard its point, with the device id of its own payload, is
\* already built;
\* the handler of a request that has to be refused is never at a lock() and
\* holds no guard; and a handler that has ended, by a return or by a panic,
\* holds no guard.
C18_GuardOnlyWhileWriting ==
    /\ client.locked <=> \E r \in Reqs : "client" \in guards[r]
    /\ bucket.locked <=> \E r \in Reqs : "bucket" \in guards[r]
    /\ \A r \in Reqs :
        /\ guards[r] # {} => pc[r] \in {"LockBucket", "Writing", "AwaitWrite"}
        /\ AtGuard(r) =>
            /\ ValidPut(r)
            /\ Len(points[r]) = 1
            /\ points[r][1].device_eui64 = SubSeq(request[r].payload, 1, IdLen)
        /\ Invalid(r) => (~AtGuard(r) /\ guards[r] = {} /\ points[r] = <<>>)
        /\ Ended(r) => guards[r] = {}

\* on one thread, a second request was validated and decoded and its point
\* built while the first handler holds both guards in its write
C18_Witness ==
    /\ workers = 1
    /\ pc[1] = "AwaitWrite" /\ guards[1] = {"client", "bucket"}
    /\ pc[2] = "LockClient" /\ guards[2] = {} /\ Len(points[2]) = 1

\* a write has failed: its handler panicked in the unwrap() of line 119
WriteFailed == \E q \in Reqs : fault[q] = "write_failed"

\* C20: the handler whose write failed ended holding both guards, so both
\* mutexes are poisoned from then on; and once a write has failed no step
\* makes a write call, takes a handler to the success path or returns the
\* Valid response.
C20_WriteFailureAbsorbing ==
    /\ [](WriteFailed => (client.poisoned /\ bucket.poisoned))
    /\ [][WriteFailed =>
            /\ calls' = calls
            /\ \A r \in Reqs :
                /\ pc'[r] = "RespondedSuccess" => pc[r] = "RespondedSuccess"
                /\ returned'[r] = Some(ValidResponse) => returned[r] = returned'[r]]_vars

\* after a failed write a valid PUT request panicked at client.lock() without
\* a write call
C20_Witness ==
    \E q, r \in Reqs :
        /\ fault[q] = "write_failed"
        /\ fault[r] = "client_poisoned" /\ ValidPut(r) /\ calls[r] = <<>>

====
